---------------------------- MODULE Spec2Model ----------------------------
(***************************************************************************)
(* PatchPilot utility functions (src/src/utilities.ts): the diff repair    *)
(* stages, the validity classifier and the debounce / throttle wrappers.   *)
(*                                                                         *)
(* A text is a sequence of one-character strings; "\n", "\r" and "\t" are  *)
(* the line feed, the carriage return and the tab.                         *)
(***************************************************************************)
EXTENDS Naturals, Integers, Sequences, FiniteSets, TLC

VARIABLES
    input,      \* the text the caller started from
    prev,       \* the text handed to the last operation
    text,       \* the text the caller holds now
    hist,       \* names of the operations applied so far
    verdict,    \* <<b>> once isUnifiedDiff returned b, <<>> before
    inThrottle, \* throttle: the closure's flag
    thStack,    \* throttle: ids of the func executions in progress, innermost last
    thExecs,    \* throttle: one record per execution of func
    thDropped,  \* throttle: number of calls that did nothing
    timeout,    \* debounce: the closure's timer handle, 0 for null
    dbTimers,   \* debounce: the timers that are scheduled and not cleared
    dbCalls,    \* debounce: every call made so far, in order
    dbLog       \* debounce: every execution of func, in order

textVars == <<input, prev, text, hist, verdict>>
thVars == <<inThrottle, thStack, thExecs, thDropped>>
dbVars == <<timeout, dbTimers, dbCalls, dbLog>>
vars == <<textVars, thVars, dbVars>>

---------------------------------------------------------------------------
(* Strings *)

\* what String.prototype.trim removes, among the characters of the model
WhiteSpace == {" ", "\t", "\r", "\n"}

\* what "." of a regular expression does not match
LineTerminator == {"\n", "\r"}

\* \d
Digit == {"0", "1", "2", "3", "4", "5", "6", "7", "8", "9"}

StartsWith(s, p) == Len(s) >= Len(p) /\ SubSeq(s, 1, Len(p)) = p

\* the literal p occurs in s at position i
OccursAt(s, p, i) == i >= 1 /\ i + Len(p) - 1 <= Len(s) /\ SubSeq(s, i, i + Len(p) - 1) = p

Includes(s, p) == \E i \in 1..(Len(s) + 1) : OccursAt(s, p, i)

RECURSIVE TrimStart(_)
TrimStart(s) ==
    IF s # <<>> /\ Head(s) \in WhiteSpace THEN TrimStart(Tail(s)) ELSE s

RECURSIVE TrimEnd(_)
TrimEnd(s) ==
    IF s # <<>> /\ s[Len(s)] \in WhiteSpace THEN TrimEnd(SubSeq(s, 1, Len(s) - 1)) ELSE s

Trim(s) == TrimEnd(TrimStart(s))

\* s.split('\n'): the pieces between consecutive line feeds
Split(s) ==
    LET feeds == {i \in 1..Len(s) : s[i] = "\n"}
        \* the position of the k-th line feed; 0 before the first piece, Len(s) + 1
        \* after the last
        cut(k) == IF k = 0 THEN 0
                  ELSE IF k > Cardinality(feeds) THEN Len(s) + 1
                  ELSE CHOOSE i \in feeds : Cardinality({j \in feeds : j < i}) = k - 1
    IN  [k \in 1..(Cardinality(feeds) + 1) |-> SubSeq(s, cut(k - 1) + 1, cut(k) - 1)]

RECURSIVE Join(_)
\* lines.join('\n')
Join(lines) ==
    IF lines = <<>> THEN <<>>
    ELSE IF Len(lines) = 1 THEN lines[1]
    ELSE lines[1] \o <<"\n">> \o Join(Tail(lines))

\* the first position from i on that is in stops, the position after the end of
\* a text of length n when there is none
FirstStop(i, stops, n) ==
    IF \E j \in stops : j >= i
    THEN CHOOSE j \in stops : j >= i /\ \A m \in stops : m >= i => j <= m
    ELSE IF i > n THEN i ELSE n + 1

\* the position after the longest run of digits (\d*) of s that starts at i
DigitsEnd(s, i) == FirstStop(i, {j \in 1..Len(s) : s[j] \notin Digit}, Len(s))

\* the position after the longest run of "." characters (.*) of s that starts at i
DotsEnd(s, i) == FirstStop(i, {j \in 1..Len(s) : s[j] \in LineTerminator}, Len(s))

DigitChars == <<"0", "1", "2", "3", "4", "5", "6", "7", "8", "9">>

RECURSIVE NumberToString(_)
\* `${n}` of a count
NumberToString(n) ==
    IF n < 10 THEN <<DigitChars[n + 1]>>
    ELSE NumberToString(n \div 10) \o <<DigitChars[(n % 10) + 1]>>

---------------------------------------------------------------------------
(* normalizeLineEndings *)

RECURSIVE ReplaceLineEndings(_, _, _)
\* what replaceAll(/\r\n|\r/g, '\n') leaves of s[lo..hi]: a "\r" becomes "\n",
\* and the "\n" of a "\r\n" goes with its "\r"
ReplaceLineEndings(s, lo, hi) ==
    IF lo > hi THEN <<>>
    ELSE IF lo = hi
    THEN IF s[lo] = "\r" THEN <<"\n">>
         ELSE IF s[lo] = "\n" /\ lo > 1 /\ s[lo - 1] = "\r" THEN <<>>
         ELSE <<s[lo]>>
    ELSE LET mid == (lo + hi) \div 2
         IN  ReplaceLineEndings(s, lo, mid) \o ReplaceLineEndings(s, mid + 1, hi)

normalizeLineEndings(t) == ReplaceLineEndings(t, 1, Len(t))

---------------------------------------------------------------------------
(* autoFixSpaces *)

\* MarkerPrefixes without the "diff " alternative
MarkerPrefixes_NoDiff ==
    { <<"+">>, <<"-">>, <<" ">>, <<"@">>, <<"i", "n", "d", "e", "x", " ">>, <<"-", "-", "-">>, <<"+", "+", "+">>, <<"@", "@">>,
      <<"n", "e", "w", " ", "f", "i", "l", "e">>, <<"d", "e", "l", "e", "t", "e", "d", " ", "f", "i", "l", "e">>, <<"o", "l", "d", " ", "m", "o", "d", "e">>, <<"n", "e", "w", " ", "m", "o", "d", "e">>,
      <<"s", "i", "m", "i", "l", "a", "r", "i", "t", "y", " ", "i", "n", "d", "e", "x">>, <<"c", "o", "p", "y", " ">>, <<"r", "e", "n", "a", "m", "e", " ">>, <<"b", "i", "n", "a", "r", "y", " ">>, <<"\\">> }

\* the alternatives of the regular expression of autoFixSpaces
MarkerPrefixes ==
    { <<"+">>, <<"-">>, <<" ">>, <<"@">>, <<"d", "i", "f", "f", " ">>, <<"i", "n", "d", "e", "x", " ">>, <<"-", "-", "-">>, <<"+", "+", "+">>, <<"@", "@">>,
      <<"n", "e", "w", " ", "f", "i", "l", "e">>, <<"d", "e", "l", "e", "t", "e", "d", " ", "f", "i", "l", "e">>, <<"o", "l", "d", " ", "m", "o", "d", "e">>, <<"n", "e", "w", " ", "m", "o", "d", "e">>,
      <<"s", "i", "m", "i", "l", "a", "r", "i", "t", "y", " ", "i", "n", "d", "e", "x">>, <<"c", "o", "p", "y", " ">>, <<"r", "e", "n", "a", "m", "e", " ">>, <<"b", "i", "n", "a", "r", "y", " ">>, <<"\\">> }

HasMarkerPrefix(line) == \E p \in MarkerPrefixes : StartsWith(line, p)

\* FixLine without the test of line.trim()
FixLine_NoTrim(line) ==
    IF ~HasMarkerPrefix(line) THEN <<" ">> \o line ELSE line

\* the callback of map
FixLine(line) ==
    IF Trim(line) # <<>> /\ ~HasMarkerPrefix(line) THEN <<" ">> \o line ELSE line

autoFixSpaces(diffText) ==
    LET lines == Split(diffText)
    IN  Join([i \in 1..Len(lines) |-> FixLine(lines[i])])

---------------------------------------------------------------------------
(* addMissingHeaders *)

UnknownFile == <<"u", "n", "k", "n", "o", "w", "n", "-", "f", "i", "l", "e">>

\* where /\+\+\+ b\/(.+)/ matches in s
FileMatchAt(s) ==
    {i \in 1..Len(s) : OccursAt(s, <<"+", "+", "+", " ", "b", "/">>, i) /\ DotsEnd(s, i + 6) > i + 6}

\* fileMatch ? fileMatch[1] : 'unknown-file'
FilePath(s) ==
    IF FileMatchAt(s) = {} THEN UnknownFile
    ELSE LET i == CHOOSE k \in FileMatchAt(s) : \A m \in FileMatchAt(s) : k <= m
         IN  SubSeq(s, i + 6, DotsEnd(s, i + 6) - 1)

GitLine(filePath) == <<"d", "i", "f", "f", " ", "-", "-", "g", "i", "t", " ", "a", "/">> \o filePath \o <<" ", "b", "/">> \o filePath

OldFileLine(filePath) == <<"-", "-", "-", " ", "a", "/">> \o filePath

\* NewFileLine naming the old side
NewFileLine_OldSide(filePath) == <<"+", "+", "+", " ", "a", "/">> \o filePath

NewFileLine(filePath) == <<"+", "+", "+", " ", "b", "/">> \o filePath

\* the three-line header
Header(filePath) == Join(<<GitLine(filePath), OldFileLine(filePath), NewFileLine(filePath)>>)

\* addMissingHeaders without its tests: the header is always prepended
addMissingHeaders_Always(diffText) ==
    Header(FilePath(diffText)) \o <<"\n">> \o diffText

addMissingHeaders(diffText) ==
    IF ~StartsWith(Trim(diffText), <<"d", "i", "f", "f", " ">>)
    THEN LET filePath == FilePath(diffText)
         IN  IF ~Includes(diffText, <<"-", "-", "-", " ">>) /\ ~Includes(diffText, <<"+", "+", "+", " ">>)
             THEN Header(filePath) \o <<"\n">> \o diffText
             ELSE IF ~Includes(diffText, <<"-", "-", "-", " ">>) /\ Includes(diffText, <<"+", "+", "+", " ">>)
             THEN GitLine(filePath) \o <<"\n">> \o OldFileLine(filePath) \o <<"\n">> \o diffText
             ELSE diffText
    ELSE diffText

---------------------------------------------------------------------------
(* adjustHunkHeaders *)

NoMatch ==
    [ok |-> FALSE, oldStart |-> <<>>, oldLines |-> <<>>, newStart |-> <<>>,
     newLines |-> <<>>, trailing |-> <<>>]

\* line.match(/^@@ -(\d+)(?:,(\d+))? \+(\d+)(?:,(\d+))? @@(.*)$/); an optional
\* group that did not take part is recorded as <<>>
MatchHunkHeader(line) ==
    LET a == DigitsEnd(line, 5)
        b == IF OccursAt(line, <<",">>, a) /\ DigitsEnd(line, a + 1) > a + 1
             THEN DigitsEnd(line, a + 1) ELSE a
        c == DigitsEnd(line, b + 2)
        d == IF OccursAt(line, <<",">>, c) /\ DigitsEnd(line, c + 1) > c + 1
             THEN DigitsEnd(line, c + 1) ELSE c
    IN  IF /\ StartsWith(line, <<"@", "@", " ", "-">>)
           /\ a > 5
           /\ OccursAt(line, <<" ", "+">>, b)
           /\ c > b + 2
           /\ OccursAt(line, <<" ", "@", "@">>, d)
           /\ DotsEnd(line, d + 3) = Len(line) + 1
        THEN [ok |-> TRUE,
              oldStart |-> SubSeq(line, 5, a - 1),
              oldLines |-> SubSeq(line, a + 1, b - 1),
              newStart |-> SubSeq(line, b + 2, c - 1),
              newLines |-> SubSeq(line, c + 1, d - 1),
              trailing |-> SubSeq(line, d + 3, Len(line))]
        ELSE NoMatch

RECURSIVE LookAhead_NoFileStop(_, _, _, _)
\* LookAhead that stops at the next hunk only, not at "diff --git"
LookAhead_NoFileStop(lines, j, oldLines, newLines) ==
    IF j > Len(lines) THEN <<oldLines, newLines>>
    ELSE LET nextLine == lines[j]
         IN  IF StartsWith(nextLine, <<"@", "@", " ">>)
             THEN <<oldLines, newLines>>
             ELSE IF StartsWith(nextLine, <<"-">>)
             THEN LookAhead_NoFileStop(lines, j + 1, oldLines + 1, newLines)
             ELSE IF StartsWith(nextLine, <<"+">>)
             THEN LookAhead_NoFileStop(lines, j + 1, oldLines, newLines + 1)
             ELSE IF StartsWith(nextLine, <<" ">>)
             THEN LookAhead_NoFileStop(lines, j + 1, oldLines + 1, newLines + 1)
             ELSE LookAhead_NoFileStop(lines, j + 1, oldLines, newLines)

RECURSIVE LookAhead(_, _, _, _)
\* the while loop: <<oldLines, newLines>> when it ends
LookAhead(lines, j, oldLines, newLines) ==
    IF j > Len(lines) THEN <<oldLines, newLines>>
    ELSE LET nextLine == lines[j]
         IN  IF StartsWith(nextLine, <<"d", "i", "f", "f", " ", "-", "-", "g", "i", "t">>) \/ StartsWith(nextLine, <<"@", "@", " ">>)
             THEN <<oldLines, newLines>>
             ELSE IF StartsWith(nextLine, <<"-">>)
             THEN LookAhead(lines, j + 1, oldLines + 1, newLines)
             ELSE IF StartsWith(nextLine, <<"+">>)
             THEN LookAhead(lines, j + 1, oldLines, newLines + 1)
             ELSE IF StartsWith(nextLine, <<" ">>)
             THEN LookAhead(lines, j + 1, oldLines + 1, newLines + 1)
             ELSE LookAhead(lines, j + 1, oldLines, newLines)

\* HunkHeader that leaves out a count of 1, as diff itself writes headers
HunkHeader_ShortCounts(oldStart, oldLines, newStart, newLines, trailing) ==
    <<"@", "@", " ", "-">> \o oldStart \o (IF oldLines = 1 THEN <<>> ELSE <<",">> \o NumberToString(oldLines))
        \o <<" ", "+">> \o newStart \o (IF newLines = 1 THEN <<>> ELSE <<",">> \o NumberToString(newLines))
        \o <<" ", "@", "@">> \o trailing

\* the reconstructed header
HunkHeader(oldStart, oldLines, newStart, newLines, trailing) ==
    <<"@", "@", " ", "-">> \o oldStart \o <<",">> \o NumberToString(oldLines)
        \o <<" ", "+">> \o newStart \o <<",">> \o NumberToString(newLines) \o <<" ", "@", "@">> \o trailing

\* one turn of the for loop: what is pushed to result for line i
AdjustLine(lines, i) ==
    LET match == MatchHunkHeader(lines[i])
        counts == LookAhead(lines, i + 1, 0, 0)
    IN  IF match.ok
        THEN HunkHeader(match.oldStart, counts[1], match.newStart, counts[2], match.trailing)
        ELSE lines[i]

adjustHunkHeaders(diffText) ==
    LET lines == Split(diffText)
    IN  Join([i \in 1..Len(lines) |-> AdjustLine(lines, i)])

---------------------------------------------------------------------------
(* normalizeDiff *)

normalizeDiff(diffText) ==
    addMissingHeaders(autoFixSpaces(normalizeLineEndings(diffText)))

---------------------------------------------------------------------------
(* isUnifiedDiff *)

\* /@@ -\d+,\d+ \+\d+,\d+ @@/ matches in s at position i
StrictHeaderAt(s, i) ==
    LET a == DigitsEnd(s, i + 4)
        b == DigitsEnd(s, a + 1)
        c == DigitsEnd(s, b + 2)
        d == DigitsEnd(s, c + 1)
    IN  /\ OccursAt(s, <<"@", "@", " ", "-">>, i)
        /\ a > i + 4
        /\ OccursAt(s, <<",">>, a)
        /\ b > a + 1
        /\ OccursAt(s, <<" ", "+">>, b)
        /\ c > b + 2
        /\ OccursAt(s, <<",">>, c)
        /\ d > c + 1
        /\ OccursAt(s, <<" ", "@", "@">>, d)

\* IsPlusMinusLine without the trim
IsPlusMinusLine_NoTrim(line) == line # <<>> /\ line[1] \in {"+", "-"}

\* /^[+\-]/.test(line.trim())
IsPlusMinusLine(line) ==
    LET t == Trim(line) IN t # <<>> /\ t[1] \in {"+", "-"}

RECURSIVE Filter(_, _)
\* lines.filter(...), for the filter of isUnifiedDiff
Filter(lines, k) ==
    IF k > Len(lines) THEN <<>>
    ELSE IF IsPlusMinusLine(lines[k]) THEN <<lines[k]>> \o Filter(lines, k + 1)
    ELSE Filter(lines, k + 1)

isUnifiedDiff(t) ==
    IF t = <<>> \/ Trim(t) = <<>> THEN FALSE
    ELSE LET hasDiffMarker ==
                 Includes(t, <<"d", "i", "f", "f", " ", "-", "-", "g", "i", "t">>) \/ Includes(t, <<"-", "-", "-", " ">>) \/ Includes(t, <<"+", "+", "+", " ">>)
             hasHunkHeader == \E i \in 1..Len(t) : StrictHeaderAt(t, i)
             plusMinusLines == Filter(Split(t), 1)
             hasMultiplePlusMinusLines == Len(plusMinusLines) >= 2
         IN  hasDiffMarker \/ hasHunkHeader \/ hasMultiplePlusMinusLines

---------------------------------------------------------------------------
(* The caller of the text functions: it holds a text and applies a stage   *)
(* to it, at most MaxSteps times.                                          *)

MaxSteps == 2
MaxRecalcLines == 3
MaxSynthLines == 3
MaxFixLines == 2
MaxClassifyLines == 3

\* every text of 1..n lines drawn from pool
Texts(pool, n) == {Join(ls) : ls \in UNION {[1..k -> pool] : k \in 1..n}}

\* the scenarios of the specification, section 8
MissingHeaderScenario == <<"@", "@", " ", "-", "1", ",", "1", " ", "+", "1", ",", "1", " ", "@", "@", "\n", "-", "o", "l", "d", " ", "l", "i", "n", "e", "\n", "+", "n", "e", "w", " ", "l", "i", "n", "e">>

WrongCountsScenario == <<"@", "@", " ", "-", "1", ",", "5", " ", "+", "1", ",", "2", " ", "@", "@", "\n", " ", "c", "t", "x", "\n", "-", "o", "l", "d", "\n", "+", "n", "e", "w">>

RecalcLines ==
    { <<"@", "@", " ", "-", "1", ",", "5", " ", "+", "1", ",", "2", " ", "@", "@">>, <<"@", "@", " ", "-", "3", " ", "+", "4", " ", "@", "@", " ", "f">>, <<"-", "a">>, <<"+", "b">>, <<" ", "c">>, <<"d">>, <<>>,
      <<"@", "@", " ", "x">>, <<"@", "@", " ", "-", "3", " ", "+", "4", " ", "@", "@", "\r">>, <<"d", "i", "f", "f", " ", "-", "-", "g", "i", "t">> }

SynthLines ==
    { <<"+", "+", "+", " ", "b", "/", "f">>, <<"-", "-", "-", " ", "a", "/", "f">>, <<"d", "i", "f", "f", " ", "-", "-", "g", "i", "t", " ", "a", "/", "f", " ", "b", "/", "f">>, <<>>, <<"+", "+", "+", " ", "x">>, <<"+", "+", "+", " ", "b", "/">>,
      <<"x">>, <<"y", "\r">>, <<" ", "d", "i", "f", "f", " ", "x">> }

FixLines ==
    { <<"+", "a">>, <<"-", "a">>, <<" ", "a">>, <<"@", "a">>, <<"d", "i", "f", "f", " ", "a">>, <<"i", "n", "d", "e", "x", " ", "a">>, <<"-", "-", "-">>, <<"+", "+", "+">>, <<"@", "@">>,
      <<"n", "e", "w", " ", "f", "i", "l", "e">>, <<"d", "e", "l", "e", "t", "e", "d", " ", "f", "i", "l", "e">>, <<"o", "l", "d", " ", "m", "o", "d", "e">>, <<"n", "e", "w", " ", "m", "o", "d", "e">>,
      <<"s", "i", "m", "i", "l", "a", "r", "i", "t", "y", " ", "i", "n", "d", "e", "x">>, <<"c", "o", "p", "y", " ", "a">>, <<"r", "e", "n", "a", "m", "e", " ", "a">>, <<"b", "i", "n", "a", "r", "y", " ", "a">>, <<"\\", " ", "a">>,
      <<"f", "o", "o", "(", ")">>, <<"d", "i", "f", "f">>, <<"B", "i", "n", "a", "r", "y", " ", "a">>, <<>>, <<"\t">>, <<"a", "\r">> }

ClassifyLines ==
    { <<"@", "@", " ", "-", "1", ",", "2", " ", "+", "3", ",", "4", " ", "@", "@">>, <<"@", "@", " ", "-", "1", " ", "+", "3", " ", "@", "@">>, <<"+", "a">>, <<"\t", "-", "b">>, <<"c">>, <<>>, <<" ">>,
      <<"x", "-", "-", "-", " ", "y">>, <<"d", "i", "f", "f", " ", "-", "-", "g", "i", "t">> }

InitOthers ==
    /\ inThrottle = FALSE
    /\ thStack = <<>>
    /\ thExecs = <<>>
    /\ thDropped = 0
    /\ timeout = 0
    /\ dbTimers = {}
    /\ dbCalls = <<>>
    /\ dbLog = <<>>

InitText(texts) ==
    /\ input \in texts
    /\ text = input
    /\ prev = input
    /\ hist = <<>>
    /\ verdict = <<>>
    /\ InitOthers

\* text = f(text) in the caller
Apply(name, result) ==
    /\ Len(hist) < MaxSteps
    /\ prev' = text
    /\ text' = result
    /\ hist' = Append(hist, name)
    /\ UNCHANGED <<input, verdict, thVars, dbVars>>

AutoFixSpaces == Apply("autoFixSpaces", autoFixSpaces(text))

AddMissingHeaders == Apply("addMissingHeaders", addMissingHeaders(text))

AdjustHunkHeaders == Apply("adjustHunkHeaders", adjustHunkHeaders(text))

NormalizeDiff == Apply("normalizeDiff", normalizeDiff(text))

IsUnifiedDiff ==
    /\ Len(hist) < MaxSteps
    /\ verdict' = <<isUnifiedDiff(text)>>
    /\ prev' = text
    /\ hist' = Append(hist, "isUnifiedDiff")
    /\ UNCHANGED <<input, text, thVars, dbVars>>

\* the last operation applied, "" before the first
Last == IF hist = <<>> THEN "" ELSE hist[Len(hist)]

InitRecalc == InitText(Texts(RecalcLines, MaxRecalcLines) \cup {WrongCountsScenario})

NextRecalc == AdjustHunkHeaders \/ NormalizeDiff

SpecRecalc == InitRecalc /\ [][NextRecalc]_vars

InitSynth == InitText(Texts(SynthLines, MaxSynthLines) \cup {MissingHeaderScenario})

NextSynth == AddMissingHeaders \/ NormalizeDiff

SpecSynth == InitSynth /\ [][NextSynth]_vars

InitFix == InitText(Texts(FixLines, MaxFixLines))

NextFix == AutoFixSpaces

SpecFix == InitFix /\ [][NextFix]_vars

InitClassify == InitText(Texts(ClassifyLines, MaxClassifyLines))

NextClassify == IsUnifiedDiff

SpecClassify == InitClassify /\ [][NextClassify]_vars

---------------------------------------------------------------------------
(* What the claims speak of, stated on the lines of a text *)

RECURSIVE StringToNumber(_)
\* the number a string of decimal digits denotes
StringToNumber(ds) ==
    IF ds = <<>> THEN 0
    ELSE 10 * StringToNumber(SubSeq(ds, 1, Len(ds) - 1))
         + (CHOOSE n \in 0..9 : DigitChars[n + 1] = ds[Len(ds)])

\* line begins with one of the characters
BeginsWithOneOf(line, chars) == line # <<>> /\ line[1] \in chars

\* line is a boundary of a hunk body: it starts a hunk or a file section
IsBoundary(line) == StartsWith(line, <<"@", "@", " ">>) \/ StartsWith(line, <<"d", "i", "f", "f", " ", "-", "-", "g", "i", "t">>)

\* the positions of the body of the hunk whose header is line i: the lines after
\* it, up to the next boundary or the end of the text
BodyOf(lines, i) ==
    {j \in (i + 1)..Len(lines) : \A m \in (i + 1)..j : ~IsBoundary(lines[m])}

\* the number of body lines of hunk i that begin with one of the characters
BodyCount(lines, i, chars) ==
    Cardinality({j \in BodyOf(lines, i) : BeginsWithOneOf(lines[j], chars)})

\* the empty lines inside the body of hunk i; the empty piece a trailing line
\* feed leaves at the end of the text is not a line
BlankBodyLines(lines, i) ==
    {j \in BodyOf(lines, i) : lines[j] = <<>> /\ j < Len(lines)}

AllWhiteSpace(s) == \A k \in 1..Len(s) : s[k] \in WhiteSpace

\* the text ends with the suffix
EndsWith(s, suffix) ==
    Len(s) >= Len(suffix) /\ SubSeq(s, Len(s) - Len(suffix) + 1, Len(s)) = suffix

\* the last two operations were both op
Twice(op) == Len(hist) >= 2 /\ hist[Len(hist)] = op /\ hist[Len(hist) - 1] = op

---------------------------------------------------------------------------
(* C1 *)

\* C1: after adjustHunkHeaders, every line of the input that matches the lenient
\* hunk-header grammar is a header whose old count is the number of body lines
\* starting with "-" or a space and whose new count is the number starting with
\* "+" or a space, the body being the lines after the header up to the next line
\* starting with "@@ " or "diff --git" or the end of the text; other lines add
\* to neither count, an empty body gives 0,0, and a later hunk's body adds
\* nothing to an earlier hunk.
C1_CountsMatchBody ==
    Last = "adjustHunkHeaders" =>
        LET in == Split(prev)
            out == Split(text)
        IN  /\ Len(out) = Len(in)
            /\ \A i \in 1..Len(in) :
                   MatchHunkHeader(in[i]).ok =>
                       LET m == MatchHunkHeader(out[i])
                       IN  /\ m.ok
                           /\ m.oldLines # <<>>
                           /\ m.newLines # <<>>
                           /\ StringToNumber(m.oldLines) = BodyCount(in, i, {"-", " "})
                           /\ StringToNumber(m.newLines) = BodyCount(in, i, {"+", " "})
                           /\ (BodyOf(in, i) = {} =>
                                   m.oldLines = <<"0">> /\ m.newLines = <<"0">>)

\* two hunks with wrong counts: the first has no body and gets 0,0, the body of
\* the second is counted for the second alone
C1_Witness ==
    /\ Last = "adjustHunkHeaders"
    /\ LET in == Split(prev)
           out == Split(text)
       IN  \E i, j \in 1..Len(in) :
               /\ i < j
               /\ in[i] = <<"@", "@", " ", "-", "1", ",", "5", " ", "+", "1", ",", "2", " ", "@", "@">>
               /\ out[i] = <<"@", "@", " ", "-", "1", ",", "0", " ", "+", "1", ",", "0", " ", "@", "@">>
               /\ MatchHunkHeader(in[j]).ok
               /\ BodyCount(in, j, {"+", " "}) = 1
               /\ out[j] # in[j]

---------------------------------------------------------------------------
(* C2 *)

\* C2: in the output of adjustHunkHeaders(normalizeDiff(input)) every hunk
\* header declares as old count the number of Deletion plus Context lines of its
\* body and as new count the number of Addition plus Context lines, the Context
\* lines including the empty lines inside the body (not the empty piece after a
\* trailing line feed).
C2_SelfConsistent ==
    hist = <<"normalizeDiff", "adjustHunkHeaders">> =>
        LET out == Split(text)
        IN  \A i \in 1..Len(out) :
                LET m == MatchHunkHeader(out[i])
                    blank == Cardinality(BlankBodyLines(out, i))
                IN  m.ok =>
                        /\ m.oldLines # <<>>
                        /\ m.newLines # <<>>
                        /\ StringToNumber(m.oldLines) = BodyCount(out, i, {"-", " "}) + blank
                        /\ StringToNumber(m.newLines) = BodyCount(out, i, {"+", " "}) + blank

---------------------------------------------------------------------------
(* C3 *)

\* the result C3 gives for the text t, with the given third line of the full
\* header
C3_Result(t, newPrefix) ==
    LET path == FilePath(t)
        git == <<"d", "i", "f", "f", " ", "-", "-", "g", "i", "t", " ", "a", "/">> \o path \o <<" ", "b", "/">> \o path
        old == <<"-", "-", "-", " ", "a", "/">> \o path
    IN  IF StartsWith(Trim(t), <<"d", "i", "f", "f", " ">>) THEN t
        ELSE IF ~Includes(t, <<"-", "-", "-", " ">>) /\ ~Includes(t, <<"+", "+", "+", " ">>)
        THEN git \o <<"\n">> \o old \o <<"\n">> \o newPrefix \o path \o <<"\n">> \o t
        ELSE IF ~Includes(t, <<"-", "-", "-", " ">>) /\ Includes(t, <<"+", "+", "+", " ">>)
        THEN git \o <<"\n">> \o old \o <<"\n">> \o t
        ELSE t

\* C3 as claimed: addMissingHeaders returns the full header with the third line
\* "+++ a/<path>" when there is no "diff " start, no "--- " and no "+++ "; the
\* "diff --git" and "--- a/<path>" lines when there is "+++ " but no "--- ";
\* the text itself otherwise; the missing-header scenario yields the
\* unknown-file header ending in "+++ a/unknown-file".
C3_AsClaimed ==
    Last = "addMissingHeaders" =>
        /\ text = C3_Result(prev, <<"+", "+", "+", " ", "a", "/">>)
        /\ (prev = MissingHeaderScenario =>
                text = <<"d", "i", "f", "f", " ", "-", "-", "g", "i", "t", " ", "a", "/", "u", "n", "k", "n", "o", "w", "n", "-", "f", "i", "l", "e", " ", "b", "/", "u", "n", "k", "n", "o", "w", "n", "-", "f", "i", "l", "e", "\n", "-", "-", "-", " ", "a", "/", "u", "n", "k", "n", "o", "w", "n", "-", "f", "i", "l", "e", "\n", "+", "+", "+", " ", "a", "/", "u", "n", "k", "n", "o", "w", "n", "-", "f", "i", "l", "e", "\n">>
                           \o prev)

\* C3 (amended): as claimed, with "+++ b/<path>" as the third line of the full
\* header; when something is prepended the original text is a suffix of the
\* output.
C3_ThreeCases ==
    Last = "addMissingHeaders" =>
        /\ text = C3_Result(prev, <<"+", "+", "+", " ", "b", "/">>)
        /\ EndsWith(text, prev)
        /\ (text # prev => StartsWith(text, <<"d", "i", "f", "f", " ", "-", "-", "g", "i", "t", " ", "a", "/">>) /\ Len(text) > Len(prev))
        /\ (prev = MissingHeaderScenario =>
                text = <<"d", "i", "f", "f", " ", "-", "-", "g", "i", "t", " ", "a", "/", "u", "n", "k", "n", "o", "w", "n", "-", "f", "i", "l", "e", " ", "b", "/", "u", "n", "k", "n", "o", "w", "n", "-", "f", "i", "l", "e", "\n", "-", "-", "-", " ", "a", "/", "u", "n", "k", "n", "o", "w", "n", "-", "f", "i", "l", "e", "\n", "+", "+", "+", " ", "b", "/", "u", "n", "k", "n", "o", "w", "n", "-", "f", "i", "l", "e", "\n">>
                           \o prev)

\* the second case with a recovered path: two lines were prepended
C3_Witness ==
    /\ Last = "addMissingHeaders"
    /\ FilePath(prev) = <<"f">>
    /\ text = <<"d", "i", "f", "f", " ", "-", "-", "g", "i", "t", " ", "a", "/", "f", " ", "b", "/", "f", "\n", "-", "-", "-", " ", "a", "/", "f", "\n">> \o prev

---------------------------------------------------------------------------
(* C4 *)

\* the structural prefixes C4 lists
C4_Prefixes ==
    { <<"d", "i", "f", "f", " ">>, <<"i", "n", "d", "e", "x", " ">>, <<"-", "-", "-">>, <<"+", "+", "+">>, <<"@", "@">>, <<"n", "e", "w", " ", "f", "i", "l", "e">>, <<"d", "e", "l", "e", "t", "e", "d", " ", "f", "i", "l", "e">>,
      <<"o", "l", "d", " ", "m", "o", "d", "e">>, <<"n", "e", "w", " ", "m", "o", "d", "e">>, <<"s", "i", "m", "i", "l", "a", "r", "i", "t", "y", " ", "i", "n", "d", "e", "x">>, <<"c", "o", "p", "y", " ">>, <<"r", "e", "n", "a", "m", "e", " ">>,
      <<"b", "i", "n", "a", "r", "y", " ">>, <<"\\">> }

C4_Kept(line) ==
    \/ BeginsWithOneOf(line, {"+", "-", " ", "@"})
    \/ \E p \in C4_Prefixes : StartsWith(line, p)

\* C4 as claimed: autoFixSpaces keeps the number and order of lines; a line
\* with a marker or structural prefix and an empty line are unaltered, every
\* other non-empty line gets exactly one space prepended.
C4_AsClaimed ==
    Last = "autoFixSpaces" =>
        LET in == Split(prev)
            out == Split(text)
        IN  /\ Len(out) = Len(in)
            /\ \A i \in 1..Len(in) :
                   out[i] = IF C4_Kept(in[i]) \/ in[i] = <<>> THEN in[i] ELSE <<" ">> \o in[i]

\* C4 (amended): as claimed, with every line that is empty or consists of
\* whitespace only unaltered.
C4_OneSpace ==
    Last = "autoFixSpaces" =>
        LET in == Split(prev)
            out == Split(text)
        IN  /\ Len(out) = Len(in)
            /\ \A i \in 1..Len(in) :
                   out[i] = IF C4_Kept(in[i]) \/ AllWhiteSpace(in[i]) THEN in[i]
                            ELSE <<" ">> \o in[i]

\* an unmarked line got its space next to a structural line that was kept
C4_Witness ==
    /\ Last = "autoFixSpaces"
    /\ prev = <<"f", "o", "o", "(", ")", "\n", "b", "i", "n", "a", "r", "y", " ", "a">>
    /\ text = <<" ", "f", "o", "o", "(", ")", "\n", "b", "i", "n", "a", "r", "y", " ", "a">>

---------------------------------------------------------------------------
(* C5 *)

\* C5: adjustHunkHeaders keeps the number and order of lines, leaves every line
\* that does not match the lenient grammar as it is, and writes every matching
\* line as "@@ -<oldStart>,<n> +<newStart>,<m> @@<trailing>" with the input's
\* oldStart, newStart and trailing and both counts present.
C5_OnlyCountsChange ==
    Last = "adjustHunkHeaders" =>
        LET in == Split(prev)
            out == Split(text)
        IN  /\ Len(out) = Len(in)
            /\ \A i \in 1..Len(in) :
                   LET m == MatchHunkHeader(in[i])
                   IN  IF m.ok
                       THEN \E n, k \in 0..Len(in) :
                                out[i] = <<"@", "@", " ", "-">> \o m.oldStart \o <<",">> \o NumberToString(n)
                                             \o <<" ", "+">> \o m.newStart \o <<",">> \o NumberToString(k)
                                             \o <<" ", "@", "@">> \o m.trailing
                       ELSE out[i] = in[i]

\* a header without counts and with a trailing text was rewritten, next to a
\* malformed "@@" line that was kept
C5_Witness ==
    /\ Last = "adjustHunkHeaders"
    /\ LET in == Split(prev)
           out == Split(text)
       IN  \E i, j \in 1..Len(in) :
               /\ in[i] = <<"@", "@", " ", "-", "3", " ", "+", "4", " ", "@", "@", " ", "f">>
               /\ out[i] = <<"@", "@", " ", "-", "3", ",", "1", " ", "+", "4", ",", "0", " ", "@", "@", " ", "f">>
               /\ in[j] = <<"@", "@", " ", "x">>
               /\ out[j] = <<"@", "@", " ", "x">>

---------------------------------------------------------------------------
(* C6 *)

\* the number of lines of t that begin with "+" or "-" once trimmed
C6_PlusMinusCount(t) ==
    LET lines == Split(t)
    IN  Cardinality({k \in 1..Len(lines) :
            \E j \in 1..Len(lines[k]) :
                /\ lines[k][j] \in {"+", "-"}
                /\ \A m \in 1..(j - 1) : lines[k][m] \in WhiteSpace})

C6_HasMarker(t) ==
    Includes(t, <<"d", "i", "f", "f", " ", "-", "-", "g", "i", "t">>) \/ Includes(t, <<"-", "-", "-", " ">>) \/ Includes(t, <<"+", "+", "+", " ">>)

C6_HasStrictHeader(t) == \E i \in 1..Len(t) : StrictHeaderAt(t, i)

\* C6: isUnifiedDiff is false for an empty or whitespace-only text, and for
\* every other text true exactly when the text contains "diff --git", "--- " or
\* "+++ ", or a strict hunk header, or has at least two lines that begin with
\* "+" or "-" once trimmed.
C6_Classifier ==
    Last = "isUnifiedDiff" =>
        /\ verdict = << /\ ~AllWhiteSpace(prev)
                        /\ \/ C6_HasMarker(prev)
                           \/ C6_HasStrictHeader(prev)
                           \/ C6_PlusMinusCount(prev) >= 2 >>
        /\ (C6_HasStrictHeader(prev) => verdict = <<TRUE>>)
        /\ (~C6_HasMarker(prev) /\ ~C6_HasStrictHeader(prev) /\ C6_PlusMinusCount(prev) < 2
                => verdict = <<FALSE>>)

\* a text classified valid only by its two "+"/"-" lines, one of them indented
C6_Witness ==
    /\ Last = "isUnifiedDiff"
    /\ verdict = <<TRUE>>
    /\ ~C6_HasMarker(prev)
    /\ ~C6_HasStrictHeader(prev)
    /\ C6_PlusMinusCount(prev) = 2
    /\ Includes(prev, <<"\t", "-", "b">>)

---------------------------------------------------------------------------
(* C7 *)

\* C7: addMissingHeaders applied to its own output changes nothing.
C7_Idempotent == Twice("addMissingHeaders") => text = prev

\* the first run prepended a header, the second run has returned
C7_Witness ==
    /\ hist = <<"addMissingHeaders", "addMissingHeaders">>
    /\ prev # input
    /\ text = prev

---------------------------------------------------------------------------
(* C10 *)

\* C10: normalizeDiff applied to its own output changes nothing; its output
\* contains no "\r", a second context-space repair leaves it as it is and a
\* second header synthesis adds nothing.
C10_Idempotent ==
    /\ Twice("normalizeDiff") => text = prev
    /\ Last = "normalizeDiff" =>
           /\ ~Includes(text, <<"\r">>)
           /\ autoFixSpaces(text) = text
           /\ addMissingHeaders(text) = text

\* the first run replaced a "\r", added a space and prepended a header; the
\* second run has returned
C10_Witness ==
    /\ hist = <<"normalizeDiff", "normalizeDiff">>
    /\ Includes(input, <<"y", "\r", "\n", "x">>)
    /\ Includes(prev, <<" ", "y", "\n", " ", "x">>)
    /\ StartsWith(prev, <<"d", "i", "f", "f", " ", "-", "-", "g", "i", "t", " ", "a", "/", "u", "n", "k", "n", "o", "w", "n", "-", "f", "i", "l", "e">>)
    /\ text = prev

---------------------------------------------------------------------------
(* throttle: one function returned by throttle(func, limit). func is the    *)
(* caller's code: while it runs it may call the throttled function again,   *)
(* return or throw. Timers run only when no call is in progress.            *)

MaxThrottleCalls == 4

ThrottleArgs == {"a", "b"}

\* the calls made so far
ThrottleCalls == Len(thExecs) + thDropped

\* the executions of func in the given state
ExecsIn(states) == {k \in 1..Len(thExecs) : thExecs[k].state \in states}

\* the throttled function is entered with args, from the event loop or from
\* inside func: func.apply(context, args) begins unless inThrottle
ThrottledCall(args) ==
    /\ ThrottleCalls < MaxThrottleCalls
    /\ IF ~inThrottle
       THEN /\ thExecs' = Append(thExecs, [args |-> args, state |-> "running"])
            /\ thStack' = Append(thStack, Len(thExecs) + 1)
            /\ UNCHANGED thDropped
       ELSE /\ thDropped' = thDropped + 1
            /\ UNCHANGED <<thExecs, thStack>>
    /\ UNCHANGED <<inThrottle, textVars, dbVars>>

\* the innermost func returns: inThrottle = true and the timer is started
FuncReturns ==
    /\ thStack # <<>>
    /\ LET k == thStack[Len(thStack)]
       IN  thExecs' = [thExecs EXCEPT ![k].state = "timing"]
    /\ inThrottle' = TRUE
    /\ thStack' = SubSeq(thStack, 1, Len(thStack) - 1)
    /\ UNCHANGED <<thDropped, textVars, dbVars>>

\* the innermost func throws: the rest of the throttled function is skipped
FuncThrows ==
    /\ thStack # <<>>
    /\ LET k == thStack[Len(thStack)]
       IN  thExecs' = [thExecs EXCEPT ![k].state = "threw"]
    /\ thStack' = SubSeq(thStack, 1, Len(thStack) - 1)
    /\ UNCHANGED <<inThrottle, thDropped, textVars, dbVars>>

\* the oldest pending timer fires: inThrottle = false
ThrottleTimer ==
    /\ thStack = <<>>
    /\ ExecsIn({"timing"}) # {}
    /\ LET k == CHOOSE i \in ExecsIn({"timing"}) : \A j \in ExecsIn({"timing"}) : i <= j
       IN  thExecs' = [thExecs EXCEPT ![k].state = "done"]
    /\ inThrottle' = FALSE
    /\ UNCHANGED <<thStack, thDropped, textVars, dbVars>>

InitThrottle == InitText({<<>>})

NextThrottle ==
    \/ \E args \in ThrottleArgs : ThrottledCall(args)
    \/ FuncReturns
    \/ FuncThrows
    \/ ThrottleTimer

SpecThrottle == InitThrottle /\ [][NextThrottle]_vars

\* C8: func is executed at most once per limit interval: once an execution of
\* func has begun, no other begins before the timer started by that call has
\* fired, calls made from inside func included; a call that arrives while the
\* throttle is active is dropped.
C8_OncePerInterval ==
    Cardinality(ExecsIn({"running", "timing"})) <= 1

---------------------------------------------------------------------------
(* debounce: one function returned by debounce(func, wait). A timer is the  *)
(* closure `later` of the call that scheduled it, with that call's context  *)
(* and args; its handle is the number of the call.                          *)

MaxDebounceCalls == 3

DebounceContexts == {"this1", "this2"}

DebounceArgs == {"a", "b"}

\* Cleared without the clearTimeout
Cleared_Never(timers, handle) == timers

\* the timers left by: if (timeout !== null) clearTimeout(timeout)
Cleared(timers, handle) ==
    IF handle # 0 THEN {t \in timers : t.id # handle} ELSE timers

\* the debounced function is called
DebouncedCall(context, args) ==
    /\ Len(dbCalls) < MaxDebounceCalls
    /\ LET id == Len(dbCalls) + 1
       IN  /\ dbTimers' = Cleared(dbTimers, timeout)
                              \cup {[id |-> id, context |-> context, args |-> args]}
           /\ timeout' = id
    /\ dbCalls' = Append(dbCalls, [context |-> context, args |-> args])
    /\ UNCHANGED <<dbLog, textVars, thVars>>

\* a timer fires: later() sets timeout = null and runs func.apply(context, args)
Later(t) ==
    /\ t \in dbTimers
    /\ timeout' = 0
    /\ dbLog' = Append(dbLog, [context |-> t.context, args |-> t.args, calls |-> Len(dbCalls)])
    /\ dbTimers' = dbTimers \ {t}
    /\ UNCHANGED <<dbCalls, textVars, thVars>>

InitDebounce == InitText({<<>>})

NextDebounce ==
    \/ \E context \in DebounceContexts, args \in DebounceArgs : DebouncedCall(context, args)
    \/ \E t \in dbTimers : Later(t)

SpecDebounce == InitDebounce /\ [][NextDebounce]_vars

\* C9: at most one timer is pending, and it is the one of the last call, with
\* that call's this and arguments; the handle is null exactly when no timer is
\* pending; every execution of func came from a timer firing, with the this and
\* arguments of the last call made before it, and no two executions belong to
\* the same burst of calls.
C9_OneTimer ==
    /\ Cardinality(dbTimers) <= 1
    /\ timeout = 0 <=> dbTimers = {}
    /\ timeout # 0 =>
           /\ timeout = Len(dbCalls)
           /\ dbTimers = {[id |-> timeout, context |-> dbCalls[timeout].context,
                           args |-> dbCalls[timeout].args]}
    /\ Len(dbLog) + Cardinality(dbTimers) <= Len(dbCalls)
    /\ \A k \in 1..Len(dbLog) :
           /\ dbLog[k].calls \in 1..Len(dbCalls)
           /\ dbLog[k].context = dbCalls[dbLog[k].calls].context
           /\ dbLog[k].args = dbCalls[dbLog[k].calls].args
           /\ (k > 1 => dbLog[k - 1].calls < dbLog[k].calls)

\* a burst of two different calls, then the timer: func ran once, as the second
C9_Witness ==
    /\ Len(dbCalls) = 2
    /\ dbCalls[1].context # dbCalls[2].context
    /\ dbCalls[1].args # dbCalls[2].args
    /\ dbLog = <<[context |-> dbCalls[2].context, args |-> dbCalls[2].args, calls |-> 2]>>
    /\ timeout = 0
    /\ dbTimers = {}

=============================================================================
